---- MODULE Spec2Model ----
(***************************************************************************)
(* Model of aeroports_dist/app.py: the great-circle distance, the flight   *)
(* eligibility rule, the nearest-airport search and the Streamlit page     *)
(* that calls it.                                                          *)
(*                                                                         *)
(* Representation.                                                         *)
(*  - A DataFrame is a sequence of rows; a row's position in the sequence  *)
(*    is its index label.  A row is a record; the column 'country_rus' is  *)
(*    optional, so a row either has the field or does not.                 *)
(*  - An IATA code is a sequence of one-character strings, so that         *)
(*    str.startswith can look at the first character.                      *)
(*  - Cyrillic string literals of the source are transliterated.           *)
(*  - Degrees are integers in tenths of a degree.  Floating point is       *)
(*    modelled in fixed point: ONE stands for 1.0, angles in radians are   *)
(*    in units of 1/ONE rad, distances are in units of 1/ONE km.           *)
(*  - Datasets have a code and numeric coordinates in every row, and no    *)
(*    code twice.                                                          *)
(*  - Where pandas leaves the order of equal distances open, the search    *)
(*    has a set of possible results and a step picks any of them.          *)
(***************************************************************************)
EXTENDS Integers, Sequences, FiniteSets, TLC

VARIABLES df, call, selected_code, session_state, alert

vars == <<df, call, selected_code, session_state, alert>>

(***************************************************************************)
(* Bounds of the model.                                                    *)
(***************************************************************************)
MaxAirports == 3
MaxN == 2

(***************************************************************************)
(* Constants of the program.                                               *)
(***************************************************************************)
EARTH_RADIUS_KM == 6371

DefaultN == 5

RESTRICTED_COUNTRIES ==
    { "Germaniya", "Frantsiya", "Italiya", "Ispaniya", "Velikobritaniya",
      "Polsha", "Chekhiya", "Slovakiya", "Vengriya", "Rumyniya",
      "Bolgariya", "Gretsiya", "Kipr", "Khorvatiya", "Sloveniya",
      "Avstriya", "Shveytsariya", "Belgiya", "Niderlandy", "Lyuksemburg",
      "Daniya", "Shvetsiya", "Norvegiya", "Finlyandiya", "Islandiya",
      "Irlandiya", "Portugaliya", "Malta", "Estoniya", "Latviya", "Litva",
      "SShA", "Kanada",
      "Yaponiya", "Yuzhnaya Koreya", "Avstraliya", "Novaya Zelandiya",
      "Singapur", "Malayziya", "Indoneziya", "Filippiny",
      "Ukraina", "Moldova" }

RussianDesignations == { "Rossiya", "RF", "Rossiyskaya Federatsiya" }

None == "None"

NaN == "NaN"

(***************************************************************************)
(* Fixed-point arithmetic standing for the floats of haversine_distance.   *)
(***************************************************************************)
ONE == 10000

PI == 31416

Abs(x) == IF x < 0 THEN -x ELSE x

\* math.radians on tenths of a degree.  The result is an even number of
\* units, so that the halvings dlat/2 and dlon/2 are exact, as they are in
\* binary floating point.
radians(deg10) ==
    LET r(d) == 2 * ((d * 8727) \div 1000)
    IN  IF deg10 < 0 THEN -r(-deg10) ELSE r(deg10)

\* The sine of an angle in [0, pi/2] by its Taylor polynomial up to x^9.
SinQuadrant(x) ==
    LET t  == (x * x) \div ONE
        h4 == ONE - (t \div 72)
        h3 == ONE - (((t * h4) \div ONE) \div 42)
        h2 == ONE - (((t * h3) \div ONE) \div 20)
        h1 == ONE - (((t * h2) \div ONE) \div 6)
    IN  (x * h1) \div ONE

\* math.sin on [-pi, pi]: odd, and symmetric about pi/2.
sin(x) ==
    LET s(y) == IF 2 * y > PI THEN SinQuadrant(PI - y) ELSE SinQuadrant(y)
    IN  IF x < 0 THEN -s(-x) ELSE s(x)

\* math.cos on [-pi/2, pi/2]: even, cos(x) = sin(pi/2 - |x|).
cos(x) == SinQuadrant((PI \div 2) - Abs(x))

RECURSIVE SqrtSearch(_, _, _)
SqrtSearch(v, lo, hi) ==
    IF lo >= hi THEN lo
    ELSE LET mid == (lo + hi + 1) \div 2
         IN  IF mid * mid <= v THEN SqrtSearch(v, mid, hi)
                               ELSE SqrtSearch(v, lo, mid - 1)

\* math.sqrt of a value v/ONE^2, as a value in units of 1/ONE.
sqrt(v) == SqrtSearch(v, 0, 2 * ONE)

\* atan of t in [0, 1]: halve the angle, then the Taylor polynomial to t^9.
AtanUnit(t) ==
    LET u  == (t * ONE) \div (ONE + sqrt(ONE * ONE + t * t))
        w  == (u * u) \div ONE
        p4 == (ONE \div 7) - ((w * (ONE \div 9)) \div ONE)
        p3 == (ONE \div 5) - ((w * p4) \div ONE)
        p2 == (ONE \div 3) - ((w * p3) \div ONE)
        p1 == ONE - ((w * p2) \div ONE)
    IN  2 * ((u * p1) \div ONE)

\* math.atan2(y, x) for y >= 0 and x >= 0, not both zero.
atan2(y, x) ==
    IF y <= x THEN AtanUnit((y * ONE) \div x)
              ELSE (PI \div 2) - AtanUnit((x * ONE) \div y)

\* The bug of taking the cosine of the first latitude twice.
HaversineFirstLatitudeTwice(lat1, lon1, lat2, lon2) ==
    LET rlat1 == radians(lat1)
        rlon1 == radians(lon1)
        rlat2 == radians(lat2)
        rlon2 == radians(lon2)
        dlat  == rlat2 - rlat1
        dlon  == rlon2 - rlon1
        sdlat == sin(dlat \div 2)
        sdlon == sin(dlon \div 2)
        raw   == sdlat * sdlat
                 + ((((cos(rlat1) * cos(rlat1)) \div ONE) * Abs(sdlon)) \div ONE)
                   * Abs(sdlon)
        a     == IF raw > ONE * ONE THEN ONE * ONE ELSE raw
        c     == 2 * atan2(sqrt(a), sqrt(ONE * ONE - a))
    IN  EARTH_RADIUS_KM * c

\* haversine_distance(lat1, lon1, lat2, lon2), arguments in tenths of a
\* degree, result in units of 1/ONE km.  The fixed-point value of a is kept
\* inside [0, 1], the domain of the two square roots.
haversine_distance(lat1, lon1, lat2, lon2) ==
    LET rlat1 == radians(lat1)
        rlon1 == radians(lon1)
        rlat2 == radians(lat2)
        rlon2 == radians(lon2)
        dlat  == rlat2 - rlat1
        dlon  == rlon2 - rlon1
        sdlat == sin(dlat \div 2)
        sdlon == sin(dlon \div 2)
        raw   == sdlat * sdlat
                 + ((((cos(rlat1) * cos(rlat2)) \div ONE) * Abs(sdlon)) \div ONE)
                   * Abs(sdlon)
        a     == IF raw > ONE * ONE THEN ONE * ONE ELSE raw
        c     == 2 * atan2(sqrt(a), sqrt(ONE * ONE - a))
    IN  EARTH_RADIUS_KM * c

(***************************************************************************)
(* Rows and datasets.                                                      *)
(***************************************************************************)
HasCountry(airport_row) == "country_rus" \in DOMAIN airport_row

\* airport.get('country_rus', '')
GetCountry(airport) == IF HasCountry(airport) THEN airport.country_rus ELSE ""

\* str(code).startswith('U'); str(NaN) is 'nan'.
StartsWithU(code) == code # NaN /\ Len(code) > 0 /\ code[1] = "U"

Row(code, name, country, lat, lon) ==
    [iata_code |-> code, name_eng |-> name, country_rus |-> country,
     latitude |-> lat, longitude |-> lon]

\* The same row of a file that has no 'country_rus' column.
WithoutCountry(r) ==
    [iata_code |-> r.iata_code, name_eng |-> r.name_eng,
     latitude |-> r.latitude, longitude |-> r.longitude]

\* The rows the datasets of the model are built from: two domestic airports
\* and a restricted-country one (the three of the specification's example),
\* an unrestricted foreign airport whose code starts with 'U', a second
\* restricted-country airport, a domestic row with no name, and a domestic
\* airport at the coordinates of another.
AirportPool ==
    { Row(<<"A">>, "Alfa", "Rossiya", 550, 370),
      Row(<<"B">>, "Bravo", "RF", 599, 303),
      Row(<<"C">>, "Charlie", "Frantsiya", 488, 23),
      Row(<<"U", "A">>, "Almaty", "Kazakhstan", 433, 770),
      Row(<<"G">>, "Golf", "Germaniya", 524, 133),
      Row(<<"K">>, NaN, "Rossiyskaya Federatsiya", 556, 493),
      Row(<<"L">>, "Lima", "Rossiya", 599, 303) }

\* Codes a caller may ask for: those of the pool and one no row carries.
Codes == { r.iata_code : r \in AirportPool } \cup { <<"X">> }

\* The sequences of at most k rows of S in which no code appears twice: the
\* code is the key of the dataset.
SeqsUpTo(S, k) ==
    UNION { { f \in [1..m -> S] :
                \A i \in 1..m : \A j \in 1..m :
                    f[i].iata_code = f[j].iata_code => i = j } : m \in 0..k }

\* A file either has the column 'country_rus' in every row or in none.
Datasets ==
    SeqsUpTo(AirportPool, MaxAirports)
    \cup SeqsUpTo({ WithoutCountry(r) : r \in AirportPool }, MaxAirports)

(***************************************************************************)
(* Eligibility.                                                            *)
(***************************************************************************)
\* The bug of consulting the code prefix although the country is given.
IsRussianCountryOrPrefix(airport_row) ==
    \/ GetCountry(airport_row) \in RussianDesignations
    \/ StartsWithU(airport_row.iata_code)

is_russian_airport(airport_row) ==
    IF HasCountry(airport_row)
    THEN airport_row.country_rus \in RussianDesignations
    ELSE StartsWithU(airport_row.iata_code)

\* The bug of checking the restriction in one argument order only.
CanFlyOneWay(airport1, airport2, frame) ==
    LET country2    == GetCountry(airport2)
        is_russian1 == is_russian_airport(airport1)
        is_russian2 == is_russian_airport(airport2)
    IN  IF is_russian1 /\ is_russian2 THEN TRUE
        ELSE IF is_russian1 /\ country2 \in RESTRICTED_COUNTRIES THEN FALSE
        ELSE TRUE

can_fly_between(airport1, airport2, frame) ==
    LET country1    == GetCountry(airport1)
        country2    == GetCountry(airport2)
        is_russian1 == is_russian_airport(airport1)
        is_russian2 == is_russian_airport(airport2)
    IN  IF is_russian1 /\ is_russian2 THEN TRUE
        ELSE IF is_russian1 /\ country2 \in RESTRICTED_COUNTRIES THEN FALSE
        ELSE IF is_russian2 /\ country1 \in RESTRICTED_COUNTRIES THEN FALSE
        ELSE TRUE

(***************************************************************************)
(* DataFrame.nsmallest(n, 'distance_km'), keep='first'.                    *)
(* frame is a sequence of records with a field distance_km.               *)
(***************************************************************************)
IsSortedByDistance(s) ==
    \A i \in 1..Len(s) : \A j \in 1..Len(s) :
        i < j => s[i].distance_km <= s[j].distance_km

\* Series.sort_values(): numpy's default quicksort promises no order among
\* equal keys, so every ascending arrangement is a possible outcome.
sort_values(frame) ==
    { s \in { [i \in 1..Len(frame) |-> frame[p[i]]] :
                  p \in Permutations(1..Len(frame)) } :
        IsSortedByDistance(s) }

\* libalgos.kth_smallest(arr, k), k counted from 0.
kth_smallest(frame, k) ==
    LET arr == { frame[i].distance_km : i \in 1..Len(frame) }
    IN  CHOOSE v \in arr :
            /\ Cardinality({ i \in 1..Len(frame) : frame[i].distance_km < v }) <= k
            /\ Cardinality({ i \in 1..Len(frame) : frame[i].distance_km <= v }) > k

\* The bug of a sort that reverses equal keys.
MergesortReversingTies(frame) ==
    LET rank(i) == Cardinality({ j \in 1..Len(frame) :
                       \/ frame[j].distance_km < frame[i].distance_km
                       \/ /\ frame[j].distance_km = frame[i].distance_km
                          /\ j > i })
    IN  [r \in 1..Len(frame) |->
            frame[CHOOSE i \in 1..Len(frame) : rank(i) = r - 1]]

\* argsort(kind='mergesort'): stable, equal keys keep their order.
mergesort(frame) ==
    LET rank(i) == Cardinality({ j \in 1..Len(frame) :
                       \/ frame[j].distance_km < frame[i].distance_km
                       \/ /\ frame[j].distance_km = frame[i].distance_km
                          /\ j < i })
    IN  [r \in 1..Len(frame) |->
            frame[CHOOSE i \in 1..Len(frame) : rank(i) = r - 1]]

FirstN(s, n) == SubSeq(s, 1, IF n < Len(s) THEN n ELSE Len(s))

\* The bug of taking the first n rows without sorting them.
NsmallestUnsorted(n, frame) ==
    IF n <= 0 THEN { <<>> } ELSE { FirstN(frame, n) }

\* SelectNSeries.compute: nothing for n <= 0; the whole frame sorted when
\* n >= len; otherwise the values up to the n-th smallest, stably sorted, cut
\* to n.  The result is the set of possible outcomes.
nsmallest(n, frame) ==
    IF n <= 0 THEN { <<>> }
    ELSE IF n >= Len(frame) THEN { FirstN(s, n) : s \in sort_values(frame) }
    ELSE LET kth_val == kth_smallest(frame, n - 1)
             ns      == SelectSeq(frame, LAMBDA e : e.distance_km <= kth_val)
         IN  { FirstN(mergesort(ns), n) }

(***************************************************************************)
(* find_nearest_airports(df, target_code, n): the set of possible return   *)
(* values, {None} or a set of result frames.  A result row carries the     *)
(* index label of the dataset row it comes from.                           *)
(***************************************************************************)
Indices(frame) == 1..Len(frame)

RECURSIVE Ascending(_)
\* The elements of a set of integers as an ascending sequence.
Ascending(S) ==
    IF S = {} THEN <<>>
    ELSE LET m == CHOOSE x \in S : \A y \in S : x <= y
         IN  <<m>> \o Ascending(S \ {m})

\* df[df['iata_code'] == target_code], as index labels in dataset order.
TargetRows(frame, target_code) ==
    Ascending({ i \in Indices(frame) : frame[i].iata_code = target_code })

\* The bug of leaving the target among the candidates.
OtherAirportsWithTarget(frame, target_code) == Indices(frame)

\* df[df['iata_code'] != target_code]
OtherAirports(frame, target_code) ==
    { i \in Indices(frame) : frame[i].iata_code # target_code }

\* The bug of keeping every candidate, flyable or not.
ValidAirportsUnfiltered(frame, target_airport, other_airports) ==
    Ascending(other_airports)

\* The loop over other_airports.iterrows() and .loc[valid_airports].
ValidAirports(frame, target_airport, other_airports) ==
    Ascending({ i \in other_airports :
                    can_fly_between(target_airport, frame[i], frame) })

\* A row of the returned frame: result_columns, 'country_rus' when present.
ResultRow(i, row, d) ==
    IF HasCountry(row)
    THEN [index |-> i, iata_code |-> row.iata_code, name_eng |-> row.name_eng,
          latitude |-> row.latitude, longitude |-> row.longitude,
          distance_km |-> d, country_rus |-> row.country_rus]
    ELSE [index |-> i, iata_code |-> row.iata_code, name_eng |-> row.name_eng,
          latitude |-> row.latitude, longitude |-> row.longitude,
          distance_km |-> d]

\* other_airports['distance_km'] = other_airports.apply(...)
WithDistance(frame, target_airport, valid_airports) ==
    [k \in 1..Len(valid_airports) |->
        ResultRow(valid_airports[k], frame[valid_airports[k]],
                  haversine_distance(target_airport.latitude,
                                     target_airport.longitude,
                                     frame[valid_airports[k]].latitude,
                                     frame[valid_airports[k]].longitude))]

\* The bug of answering an unknown code with an empty frame.
FindNearestEmptyForUnknown(frame, target_code, n) ==
    LET target == TargetRows(frame, target_code)
    IN  IF target = <<>> THEN { <<>> }
        ELSE LET target_airport == frame[target[1]]
                 other_airports == OtherAirports(frame, target_code)
                 valid_airports == ValidAirports(frame, target_airport,
                                                 other_airports)
             IN  nsmallest(n, WithDistance(frame, target_airport,
                                           valid_airports))

find_nearest_airports(frame, target_code, n) ==
    LET target == TargetRows(frame, target_code)
    IN  IF target = <<>> THEN { None }
        ELSE LET target_airport == frame[target[1]]
                 other_airports == OtherAirports(frame, target_code)
                 valid_airports == ValidAirports(frame, target_airport,
                                                 other_airports)
             IN  nsmallest(n, WithDistance(frame, target_airport,
                                           valid_airports))

(***************************************************************************)
(* main(): one run of the Streamlit script per user interaction.           *)
(***************************************************************************)
NoAlert == "none"
SearchError == "Ne naydeno dostupnykh aeroportov s uchetom ogranicheniy"
LoadError == "Oshibka zagruzki dannykh"
ScriptException == "IndexError"

RECURSIVE DictKeys(_, _)
\* list(airport_dict.keys()): the codes of the rows that have a code and a
\* name, each once, in order of first appearance.
DictKeys(frame, i) ==
    IF i > Len(frame) THEN <<>>
    ELSE LET rest == DictKeys(frame, i + 1)
             code == frame[i].iata_code
         IN  IF code = NaN \/ frame[i].name_eng = NaN
             THEN rest
             ELSE <<code>> \o SelectSeq(rest, LAMBDA c : c # code)

Options(frame) == DictKeys(frame, 1)

InOptions(frame, code) ==
    LET options == Options(frame)
    IN  \E k \in 1..Len(options) : options[k] = code

\* st.session_state: a mapping from keys to values, empty at first.
EmptySession == [key \in {} |-> None]

HasKey(session, key) == key \in DOMAIN session

\* The bug of storing an empty result.
SearchButtonStoresEmpty(session, code, nearest) ==
    IF nearest # None
    THEN [session |-> [nearest_airports |-> nearest, target_code |-> code],
          alert   |-> NoAlert]
    ELSE [session |-> session, alert |-> SearchError]

\* Lines 212-216: what the run stores and shows for the value `nearest`
\* returned by find_nearest_airports.
SearchButton(session, code, nearest) ==
    IF nearest # None /\ nearest # <<>>
    THEN [session |-> [nearest_airports |-> nearest, target_code |-> code],
          alert   |-> NoAlert]
    ELSE [session |-> session, alert |-> SearchError]

\* The state of a session after the first run of the script: the selectbox
\* holds its first option; with no option it returns None and line 199
\* raises.
FirstRun(frame) ==
    IF Options(frame) = <<>>
    THEN [selected |-> None, alert |-> ScriptException]
    ELSE [selected |-> Options(frame)[1], alert |-> NoAlert]

Ns == (-1 .. MaxN) \cup { DefaultN }

NoCall == [op |-> "none"]

Init ==
    /\ df \in Datasets
    /\ call = NoCall
    /\ selected_code = FirstRun(df).selected
    /\ session_state = EmptySession
    /\ alert = FirstRun(df).alert

(***************************************************************************)
(* The functions of the module, called directly.  The functions are pure,  *)
(* so a run makes one call on the inputs it draws.                         *)
(***************************************************************************)
FindNearest ==
    /\ call = NoCall
    /\ \E target_code \in Codes, n \in Ns :
        \E ret \in find_nearest_airports(df, target_code, n) :
            call' = [op |-> "find_nearest_airports",
                     target_code |-> target_code, n |-> n, ret |-> ret]
    /\ UNCHANGED <<df, selected_code, session_state, alert>>

CanFlyBetween ==
    /\ call = NoCall
    /\ \E i \in Indices(df), j \in Indices(df) :
        call' = [op |-> "can_fly_between", airport1 |-> df[i],
                 airport2 |-> df[j],
                 ret |-> can_fly_between(df[i], df[j], df)]
    /\ UNCHANGED <<df, selected_code, session_state, alert>>

IsRussianAirport ==
    /\ call = NoCall
    /\ \E i \in Indices(df) :
        call' = [op |-> "is_russian_airport", airport_row |-> df[i],
                 ret |-> is_russian_airport(df[i])]
    /\ UNCHANGED <<df, selected_code, session_state, alert>>

Next == FindNearest \/ CanFlyBetween \/ IsRussianAirport

Spec == Init /\ [][Next]_vars

(***************************************************************************)
(* haversine_distance called directly on a grid of coordinates.            *)
(***************************************************************************)
Latitudes == { -900, -338, 0, 488, 550, 599, 900 }

Longitudes == { -1800, -738, 0, 23, 303, 370, 1800 }

InitDist ==
    /\ df = <<>>
    /\ call = NoCall
    /\ selected_code = FirstRun(df).selected
    /\ session_state = EmptySession
    /\ alert = FirstRun(df).alert

HaversineDistance ==
    /\ call = NoCall
    /\ \E lat1 \in Latitudes, lon1 \in Longitudes,
          lat2 \in Latitudes, lon2 \in Longitudes :
        call' = [op |-> "haversine_distance", lat1 |-> lat1, lon1 |-> lon1,
                 lat2 |-> lat2, lon2 |-> lon2,
                 ret |-> haversine_distance(lat1, lon1, lat2, lon2)]
    /\ UNCHANGED <<df, selected_code, session_state, alert>>

NextDist == HaversineDistance

SpecDist == InitDist /\ [][NextDist]_vars

(***************************************************************************)
(* The page: every interaction reruns main() from the top.                 *)
(***************************************************************************)
\* The user picks another airport in the selectbox; the button reads False.
SelectAirport ==
    /\ \E code \in Codes :
        /\ InOptions(df, code)
        /\ code # selected_code
        /\ selected_code' = code
    /\ alert' = NoAlert
    /\ UNCHANGED <<df, call, session_state>>

\* The user presses the button: find_nearest_airports(df, selected_code),
\* then lines 212-216.
PressSearch ==
    /\ InOptions(df, selected_code)
    /\ \E nearest \in find_nearest_airports(df, selected_code, DefaultN) :
        LET run == SearchButton(session_state, selected_code, nearest)
        IN  /\ session_state' = run.session
            /\ alert' = run.alert
    /\ UNCHANGED <<df, call, selected_code>>

\* A rerun in which load_airports_data() fails: st.error, then st.stop().
LoadFailed ==
    /\ alert' = LoadError
    /\ UNCHANGED <<df, call, selected_code, session_state>>

\* A rerun on a dataset with no selectable airport: line 199 raises.
RunRaises ==
    /\ Options(df) = <<>>
    /\ alert' = ScriptException
    /\ UNCHANGED <<df, call, selected_code, session_state>>

NextUI == SelectAirport \/ PressSearch \/ LoadFailed \/ RunRaises

\* The page is checked on the datasets built from these rows of the pool.
PageCodes == { <<"A">>, <<"B">>, <<"C">>, <<"U", "A">>, <<"K">> }

InitUI ==
    /\ Init
    /\ \A i \in Indices(df) : df[i].iata_code \in PageCodes

SpecUI == InitUI /\ [][NextUI]_vars

(***************************************************************************)
(* Properties.                                                             *)
(***************************************************************************)
IsFind == call.op = "find_nearest_airports"

Known(frame, code) == \E i \in Indices(frame) : frame[i].iata_code = code

\* The first row of the dataset that carries the code.
TargetOf(frame, code) ==
    frame[CHOOSE i \in Indices(frame) :
              /\ frame[i].iata_code = code
              /\ \A j \in Indices(frame) : frame[j].iata_code = code => i <= j]

\* The rows a search for the code may return: another code, and flyable.
Eligible(frame, code) ==
    { i \in Indices(frame) :
        /\ frame[i].iata_code # code
        /\ can_fly_between(TargetOf(frame, code), frame[i], frame) }

\* The distance from the target to row i of the dataset.
DistanceTo(frame, code, i) ==
    haversine_distance(TargetOf(frame, code).latitude,
                       TargetOf(frame, code).longitude,
                       frame[i].latitude, frame[i].longitude)

\* C1: every airport in the result of find_nearest_airports is a row of the
\* dataset whose code differs from the target code and that can_fly_between
\* allows from the target; the target itself is never in the result.
C1_ResultEligible ==
    (IsFind /\ call.ret # None) =>
        \A k \in 1..Len(call.ret) :
            /\ call.ret[k].index \in Indices(df)
            /\ call.ret[k].iata_code = df[call.ret[k].index].iata_code
            /\ call.ret[k].iata_code # call.target_code
            /\ can_fly_between(TargetOf(df, call.target_code),
                               df[call.ret[k].index], df)

\* A search that returned an airport and left out one that may not be flown to.
C1_Witness ==
    /\ IsFind
    /\ call.ret # None
    /\ Len(call.ret) >= 1
    /\ call.n >= Len(df)
    /\ \E i \in Indices(df) :
        /\ df[i].iata_code # call.target_code
        /\ ~can_fly_between(TargetOf(df, call.target_code), df[i], df)

\* C2: for a known target and n >= 0 the result has at most n entries, in
\* non-decreasing order of distance from the target.
C2_BoundedSorted ==
    (IsFind /\ call.ret # None /\ call.n >= 0) =>
        /\ Len(call.ret) <= call.n
        /\ \A k \in 1..Len(call.ret) : \A l \in 1..Len(call.ret) :
            k < l => DistanceTo(df, call.target_code, call.ret[k].index)
                     <= DistanceTo(df, call.target_code, call.ret[l].index)

\* Two airports returned, the nearer one later in the dataset.
C2_Witness ==
    /\ IsFind
    /\ call.ret # None
    /\ Len(call.ret) = 2
    /\ call.ret[1].index > call.ret[2].index
    /\ call.ret[1].distance_km < call.ret[2].distance_km

\* C3: a target code that no row of the dataset carries gives None, on every
\* dataset, the empty one included.
C3_UnknownIsNone ==
    (IsFind /\ ~Known(df, call.target_code)) => call.ret = None

\* A search for an unknown code in a dataset that has rows.
C3_Witness ==
    /\ IsFind
    /\ Len(df) > 0
    /\ ~Known(df, call.target_code)
    /\ call.ret = None

\* The eligibility rule of the specification, for a pair of airports.
EligibilityRule(a, b) ==
    LET domestic_a == is_russian_airport(a)
        domestic_b == is_russian_airport(b)
    IN  IF domestic_a /\ domestic_b THEN TRUE
        ELSE IF domestic_a /\ ~domestic_b
                /\ GetCountry(b) \in RESTRICTED_COUNTRIES THEN FALSE
        ELSE IF domestic_b /\ ~domestic_a
                /\ GetCountry(a) \in RESTRICTED_COUNTRIES THEN FALSE
        ELSE TRUE

\* C4: can_fly_between follows the eligibility rule in both argument orders:
\* true for two domestic airports, false for a domestic one and one of a
\* restricted country, true otherwise.
C4_EligibilityRule ==
    call.op = "can_fly_between" =>
        call.ret = EligibilityRule(call.airport1, call.airport2)

\* A restricted-country airport given first and a domestic one second.
C4_Witness ==
    /\ call.op = "can_fly_between"
    /\ is_russian_airport(call.airport2)
    /\ GetCountry(call.airport1) \in RESTRICTED_COUNTRIES
    /\ call.ret = FALSE

\* C5: haversine_distance is symmetric and zero on identical points.
C5_SymmetricZero ==
    call.op = "haversine_distance" =>
        /\ call.ret = haversine_distance(call.lat2, call.lon2,
                                         call.lat1, call.lon1)
        /\ (call.lat1 = call.lat2 /\ call.lon1 = call.lon2) => call.ret = 0

\* A distance between two points that differ in latitude and longitude.
C5_Witness ==
    /\ call.op = "haversine_distance"
    /\ call.lat1 # call.lat2
    /\ call.lon1 # call.lon2
    /\ call.ret > 0

\* C6: the outcome of a search, None for an unknown target or an empty
\* frame for a known target with no eligible candidate, can be told from
\* the other both by the returned value and by what the page shows for it.
C6_ReportedDistinctly ==
    IsFind =>
        \A other \in { None, <<>> } :
            other # call.ret =>
                SearchButton(session_state, call.target_code, call.ret).alert
                # SearchButton(session_state, call.target_code, other).alert

ExampleA == Row(<<"A">>, "Alfa", "Rossiya", 550, 370)
ExampleB == Row(<<"B">>, "Bravo", "RF", 599, 303)
ExampleC == Row(<<"C">>, "Charlie", "Frantsiya", 488, 23)

IsExample(frame) ==
    /\ Len(frame) = 3
    /\ { frame[i] : i \in 1..Len(frame) } = { ExampleA, ExampleB, ExampleC }

Codes1(ret) == [k \in 1..Len(ret) |-> ret[k].iata_code]

NearerToC ==
    IF haversine_distance(488, 23, 550, 370) <= haversine_distance(488, 23, 599, 303)
    THEN <<"A">> ELSE <<"B">>

\* C7 as claimed: on the dataset {A, B, C}, the search from A with n = 1
\* returns [B] and the search from C with n = 1 returns the nearer of A
\* and B.
C7_Example ==
    (IsFind /\ IsExample(df) /\ call.n = 1) =>
        /\ call.target_code = <<"A">> => (call.ret # None /\ Codes1(call.ret) = << <<"B">> >>)
        /\ call.target_code = <<"C">> => (call.ret # None /\ Codes1(call.ret) = << NearerToC >>)

\* C7 amended: on the dataset {A, B, C}, the search from A with n = 1
\* returns [B], and the search from C with n = 1 returns the empty frame:
\* C is in a restricted country, so neither domestic airport is flyable.
C7_ExampleAmended ==
    (IsFind /\ IsExample(df) /\ call.n = 1) =>
        /\ call.target_code = <<"A">> => (call.ret # None /\ Codes1(call.ret) = << <<"B">> >>)
        /\ call.target_code = <<"C">> => call.ret = <<>>

\* The search from C on the example dataset.
C7_Witness ==
    /\ IsFind
    /\ IsExample(df)
    /\ call.n = 1
    /\ call.target_code = <<"C">>
    /\ call.ret = <<>>

Min(a, b) == IF a < b THEN a ELSE b

ReturnedIndices == { call.ret[k].index : k \in 1..Len(call.ret) }

\* What holds of the result of every search on a known target: it has
\* min(n, eligible) distinct eligible entries with their distances, in
\* non-decreasing order, and no omitted candidate is closer than a returned
\* one.
NearestSelected ==
    LET eligible == Eligible(df, call.target_code)
        dist(i)  == DistanceTo(df, call.target_code, i)
    IN  /\ Len(call.ret) = Min(call.n, Cardinality(eligible))
        /\ ReturnedIndices \subseteq eligible
        /\ Cardinality(ReturnedIndices) = Len(call.ret)
        /\ \A k \in 1..Len(call.ret) :
            call.ret[k].distance_km = dist(call.ret[k].index)
        /\ \A k \in 1..Len(call.ret) : \A l \in 1..Len(call.ret) :
            k < l => call.ret[k].distance_km <= call.ret[l].distance_km
        /\ \A i \in eligible \ ReturnedIndices : \A j \in ReturnedIndices :
            dist(i) >= dist(j)

\* Candidates at equal distance appear in dataset order, and an omitted
\* candidate at the distance of a returned one comes after it in the dataset.
TiesInDatasetOrder ==
    LET eligible == Eligible(df, call.target_code)
        dist(i)  == DistanceTo(df, call.target_code, i)
    IN  /\ \A k \in 1..Len(call.ret) : \A l \in 1..Len(call.ret) :
            (k < l /\ call.ret[k].distance_km = call.ret[l].distance_km)
                => call.ret[k].index < call.ret[l].index
        /\ \A i \in eligible \ ReturnedIndices : \A j \in ReturnedIndices :
            dist(i) = dist(j) => j < i

C9_CountryOrPrefix ==
    call.op = "is_russian_airport" =>
        call.ret = (\/ GetCountry(call.airport_row) \in RussianDesignations
                    \/ StartsWithU(call.airport_row.iata_code))

\* C9 amended: with a country field, is_russian_airport is true exactly when
\* the country is a Russian designation, whatever the code; only without a
\* country field is it true exactly when the code starts with 'U'.
C9_CountryElsePrefix ==
    call.op = "is_russian_airport" =>
        (call.ret <=>
            \/ /\ HasCountry(call.airport_row)
               /\ call.airport_row.country_rus \in RussianDesignations
            \/ /\ ~HasCountry(call.airport_row)
               /\ StartsWithU(call.airport_row.iata_code))

\* A foreign country and a code that starts with 'U': not domestic.
C9_Witness ==
    /\ call.op = "is_russian_airport"
    /\ HasCountry(call.airport_row)
    /\ call.airport_row.country_rus \notin RussianDesignations
    /\ StartsWithU(call.airport_row.iata_code)
    /\ call.ret = FALSE

SessionConsistent ==
    /\ HasKey(session_state, "nearest_airports")
        <=> HasKey(session_state, "target_code")
    /\ HasKey(session_state, "nearest_airports") =>
        /\ session_state.nearest_airports # None
        /\ session_state.nearest_airports # <<>>
        /\ session_state.nearest_airports \in
               find_nearest_airports(df, session_state.target_code, DefaultN)

SessionWrite ==
    /\ session_state' # session_state =>
        /\ alert' = NoAlert
        /\ session_state'.target_code = selected_code
        /\ session_state'.nearest_airports # <<>>
        /\ session_state'.nearest_airports \in
               find_nearest_airports(df, selected_code, DefaultN)
    /\ alert' = SearchError => session_state' = session_state

\* C10: the session fields nearest_airports and target_code are both absent
\* or both present; when present nearest_airports is a non-empty result of
\* find_nearest_airports(df, target_code); only a search with a non-empty
\* result writes them, and a search that fails leaves them as they were.
C10_SessionInvariant == [](SessionConsistent) /\ [][SessionWrite]_vars

\* A failed search from another airport after a successful one.
C10_Witness ==
    /\ HasKey(session_state, "nearest_airports")
    /\ alert = SearchError
    /\ session_state.target_code # selected_code

====
